---- MODULE Spec2Model ----
(***************************************************************************)
(* Spaced-repetition scheduling engine: the SM-2 update of UserProgress    *)
(* (domain/entities/word.py), the SubmitAnswer command handler             *)
(* (application/handlers/command_handlers.py) and the SQLAlchemy           *)
(* repositories it calls (infrastructure/repositories).                    *)
(*                                                                         *)
(* Numbers.  ease_factor is a Python float that moves in steps of 0.01; it *)
(* is kept here in hundredths (2.5 is 250), so int(interval * ease_factor) *)
(* is (interval * ease_factor) \div 100.  Timestamps are clock ticks,      *)
(* TicksPerDay ticks to a day.  None is NoId for a row id and NoTime for   *)
(* a datetime.                                                             *)
(***************************************************************************)
EXTENDS Integers, Sequences, FiniteSets, TLC

VARIABLES
    card,           \* SpecSM: the UserProgress entity under update
    prior,          \* SpecSM: the entity as it was before the last update_progress
    lastQuality,    \* SpecSM: the quality of the last update_progress (0 before the first)
    emitted,        \* SpecSM: the events the last update_progress returned
    answers,        \* SpecSM: number of update_progress calls so far
    history,        \* SpecFresh: per update_progress so far, its quality and whether
                    \* it returned a WordLearned event
    clock,          \* datetime.now(), in ticks
    wordTable,      \* Spec: the rows of table words, by id
    progressTable,  \* Spec: the rows of table user_progress; a row's id is its index
    sessionTable,   \* Spec: the rows of table study_sessions; a row's id is its index
    req,            \* Spec: per request slot, the SubmitAnswer call in flight and its position
    block,          \* SpecBlock: what the GenerateStudyBlock call that has just returned
                    \* gives its caller; NoBlock once the caller has it
    command_handlers,   \* SpecMediator: CQRSMediator._command_handlers, as (type, handler) pairs
    query_handlers,     \* SpecMediator: CQRSMediator._query_handlers, as (type, handler) pairs
    registrations,      \* SpecMediator: the register_* calls so far, in order
    invoked,            \* SpecMediator: the handle calls made by the last send_* call
    reply,              \* SpecMediator: what the last send_* call gave its caller; NoReply
                        \* once a handler has been registered since
    stats               \* SpecStats: the GetWordStats call in flight and its position

smVars == <<card, prior, lastQuality, emitted, answers, history>>
dbVars == <<wordTable, progressTable, sessionTable>>
hVars == <<wordTable, progressTable, sessionTable, req>>
medVars == <<command_handlers, query_handlers, registrations, invoked, reply>>
vars == <<card, prior, lastQuality, emitted, answers, history, clock,
          wordTable, progressTable, sessionTable, req, block,
          command_handlers, query_handlers, registrations, invoked, reply, stats>>

---------------------------------------------------------------------------
(* Bounds of the model *)

MaxInitReps == 3
MaxInitInterval == 7
MaxInitEase == 262
MaxAnswers == 2
MaxFreshAnswers == 5
MaxRunAnswers == 10
MaxClock == 2
TicksPerDay == 2
MaxCalls == 2
MaxRaceCalls == 3
MaxLimit == 2
MaxRegistrations == 3
StampTicks == 2
NumWords == 2

---------------------------------------------------------------------------
(* Program constants *)

MinEase == 130
DefaultEase == 250
DefaultInterval == 1
NoId == 0
NoTime == -1

Qualities == 0..5

---------------------------------------------------------------------------
(* domain/value_objects/quality.py *)

is_correct_Lenient(quality) == quality >= 2

is_correct(quality) == quality >= 3

---------------------------------------------------------------------------
(* domain/entities/word.py: UserProgress *)

UserProgress(id, user_id, word_id, repetitions, ease_factor, interval, next_review, last_review) ==
    [id |-> id, user_id |-> user_id, word_id |-> word_id,
     repetitions |-> repetitions, ease_factor |-> ease_factor, interval |-> interval,
     next_review |-> next_review, last_review |-> last_review]

\* The dataclass defaults: a progress built with only id, user_id, word_id.
NewUserProgress(user_id, word_id) ==
    UserProgress(NoId, user_id, word_id, 0, DefaultEase, DefaultInterval, NoTime, NoTime)

\* UserProgress.is_due_for_review (lines 94-98) when datetime.now() reads now
is_due_for_review(progress, now) ==
    IF progress.next_review = NoTime
    THEN TRUE
    ELSE now >= progress.next_review

\* __post_init__ accepts the entity (user_id and word_id are checked by the caller's model).
ValidProgress(progress) == progress.ease_factor >= MinEase

\* 0.1 - (5 - q) * (0.08 + (5 - q) * 0.02), in hundredths
EaseDelta(quality) == 10 - (5 - quality) * (8 + (5 - quality) * 2)

Max(a, b) == IF a >= b THEN a ELSE b

StudySessionCompleted(user_id, word_id, quality, repetitions, ease_factor) ==
    [type |-> "StudySessionCompleted", user_id |-> user_id, word_id |-> word_id,
     quality |-> quality, repetitions |-> repetitions, ease_factor |-> ease_factor]

WordLearned(user_id, word_id) ==
    [type |-> "WordLearned", user_id |-> user_id, word_id |-> word_id]

\* Variants of Sm2, each with one slip, used to test the claims below.
Sm2_KeepsInterval(progress, quality) ==
    IF quality < 3
    THEN [progress EXCEPT !.repetitions = 0]
    ELSE LET reps == progress.repetitions + 1
             ival == IF reps = 1 THEN 1
                     ELSE IF reps = 2 THEN 6
                     ELSE (progress.interval * progress.ease_factor) \div 100
             ease == Max(MinEase, progress.ease_factor + EaseDelta(quality))
         IN [progress EXCEPT !.repetitions = reps, !.interval = ival, !.ease_factor = ease]

Sm2_OldRepetitions(progress, quality) ==
    IF quality < 3
    THEN [progress EXCEPT !.repetitions = 0, !.interval = 1]
    ELSE LET reps == progress.repetitions + 1
             ival == IF progress.repetitions = 1 THEN 1
                     ELSE IF progress.repetitions = 2 THEN 6
                     ELSE (progress.interval * progress.ease_factor) \div 100
             ease == Max(MinEase, progress.ease_factor + EaseDelta(quality))
         IN [progress EXCEPT !.repetitions = reps, !.interval = ival, !.ease_factor = ease]

Sm2_EaseFirst(progress, quality) ==
    IF quality < 3
    THEN [progress EXCEPT !.repetitions = 0, !.interval = 1]
    ELSE LET reps == progress.repetitions + 1
             ease == Max(MinEase, progress.ease_factor + EaseDelta(quality))
             ival == IF reps = 1 THEN 1
                     ELSE IF reps = 2 THEN 6
                     ELSE (progress.interval * ease) \div 100
         IN [progress EXCEPT !.repetitions = reps, !.interval = ival, !.ease_factor = ease]

Sm2_NoFloor(progress, quality) ==
    IF quality < 3
    THEN [progress EXCEPT !.repetitions = 0, !.interval = 1]
    ELSE LET reps == progress.repetitions + 1
             ival == IF reps = 1 THEN 1
                     ELSE IF reps = 2 THEN 6
                     ELSE (progress.interval * progress.ease_factor) \div 100
             ease == progress.ease_factor + EaseDelta(quality)
         IN [progress EXCEPT !.repetitions = reps, !.interval = ival, !.ease_factor = ease]

Sm2_TruncatesEase(progress, quality) ==
    IF quality < 3
    THEN [progress EXCEPT !.repetitions = 0, !.interval = 1]
    ELSE LET reps == progress.repetitions + 1
             ival == IF reps = 1 THEN 1
                     ELSE IF reps = 2 THEN 6
                     ELSE progress.interval * (progress.ease_factor \div 100)
             ease == Max(MinEase, progress.ease_factor + EaseDelta(quality))
         IN [progress EXCEPT !.repetitions = reps, !.interval = ival, !.ease_factor = ease]

Sm2_ZeroIntervalOnLapse(progress, quality) ==
    IF quality < 3
    THEN [progress EXCEPT !.repetitions = 0, !.interval = 0]
    ELSE LET reps == progress.repetitions + 1
             ival == IF reps = 1 THEN 1
                     ELSE IF reps = 2 THEN 6
                     ELSE (progress.interval * progress.ease_factor) \div 100
             ease == Max(MinEase, progress.ease_factor + EaseDelta(quality))
         IN [progress EXCEPT !.repetitions = reps, !.interval = ival, !.ease_factor = ease]

Sm2_KeepsRepetitions(progress, quality) ==
    IF quality < 3
    THEN [progress EXCEPT !.interval = 1]
    ELSE LET reps == progress.repetitions + 1
             ival == IF reps = 1 THEN 1
                     ELSE IF reps = 2 THEN 6
                     ELSE (progress.interval * progress.ease_factor) \div 100
             ease == Max(MinEase, progress.ease_factor + EaseDelta(quality))
         IN [progress EXCEPT !.repetitions = reps, !.interval = ival, !.ease_factor = ease]

\* The repetitions / interval / ease_factor part of update_progress (lines 53-70).
\* The ease factor is recomputed inside the correct-answer branch only, after the
\* interval has been computed from the old ease factor.
Sm2(progress, quality) ==
    IF quality < 3
    THEN [progress EXCEPT !.repetitions = 0, !.interval = 1]
    ELSE LET reps == progress.repetitions + 1
             ival == IF reps = 1 THEN 1
                     ELSE IF reps = 2 THEN 6
                     ELSE (progress.interval * progress.ease_factor) \div 100
             ease == Max(MinEase, progress.ease_factor + EaseDelta(quality))
         IN [progress EXCEPT !.repetitions = reps, !.interval = ival, !.ease_factor = ease]

EventsOf_AnyCorrectLearns(updated, quality) ==
    <<StudySessionCompleted(updated.user_id, updated.word_id, quality,
                            updated.repetitions, updated.ease_factor)>>
    \o (IF quality >= 3
        THEN <<WordLearned(updated.user_id, updated.word_id)>>
        ELSE <<>>)

\* The events of update_progress (lines 76-92), from the updated entity.
EventsOf(updated, quality) ==
    <<StudySessionCompleted(updated.user_id, updated.word_id, quality,
                            updated.repetitions, updated.ease_factor)>>
    \o (IF updated.repetitions = 1 /\ quality >= 3
        THEN <<WordLearned(updated.user_id, updated.word_id)>>
        ELSE <<>>)

\* update_progress: now1 and now2 are the two datetime.now() readings of lines 73
\* and 74 (now1 <= now2).  Returns the updated entity and the events.
update_progress(progress, quality, now1, now2) ==
    LET s == Sm2(progress, quality)
        updated == [s EXCEPT !.next_review = now1 + s.interval * TicksPerDay,
                             !.last_review = now2]
    IN [progress |-> updated, events |-> EventsOf(updated, quality)]

---------------------------------------------------------------------------
(* domain/value_objects/identifiers.py *)

\* The user ids and word ids callers send.  "ab" is too short to be a UserId;
\* word id 0 is no WordId and word id NumWords + 1 names no stored word.
UserInputs == {"ab", "alice", "bob"}
WordIdInputs == 0..(NumWords + 1)
QualityInputs == {-1, 2, 4, 6}
ResponseTimeInputs == {-1, 0}

StrLen(str) == CASE str = "ab" -> 2 [] str = "alice" -> 5 [] str = "bob" -> 3 [] OTHER -> 0

\* UserId.__post_init__ accepts the value
ValidUserId(value) == StrLen(value) >= 3

\* WordId.__post_init__ accepts the value
ValidWordId(value) == value > 0

---------------------------------------------------------------------------
(* infrastructure/database/models.py and repositories/sqlalchemy_repositories.py *)

Word(id, difficulty_level) == [id |-> id, frequency_rank |-> id, difficulty_level |-> difficulty_level]

InitWordTable == [w \in 1..NumWords |-> Word(w, ((w - 1) % 5) + 1)]

\* SQLAlchemyWordRepository.find_by_id: the rows with that id (at most one: id is the primary key)
find_by_id(words, word_id) == {words[w] : w \in {x \in DOMAIN words : x = word_id}}

ProgressRowsFor_AnyLearner(table, user_id, word_id) ==
    {i \in 1..Len(table) : table[i].word_id = word_id}

\* The rows .filter(user_id == ..., word_id == ...) selects; .first() returns one of
\* them (no ORDER BY: any of them), or None when there is none.
ProgressRowsFor(table, user_id, word_id) ==
    {i \in 1..Len(table) : table[i].user_id = user_id /\ table[i].word_id = word_id}

SaveProgressRow_KeepsInterval(table, progress) ==
    IF progress.id # NoId
    THEN IF progress.id \in 1..Len(table)
         THEN [table EXCEPT ![progress.id] =
                  [@ EXCEPT !.repetitions = progress.repetitions,
                            !.ease_factor = progress.ease_factor,
                            !.next_review = progress.next_review,
                            !.last_review = progress.last_review]]
         ELSE table
    ELSE Append(table, [progress EXCEPT !.id = Len(table) + 1])

SaveProgressRow_AlwaysAdds(table, progress) ==
    Append(table, [progress EXCEPT !.id = Len(table) + 1])

\* SQLAlchemyUserProgressRepository.save: update the row with the entity's id, or
\* add a row when the entity has none; the database assigns the next id.
SaveProgressRow(table, progress) ==
    IF progress.id # NoId
    THEN IF progress.id \in 1..Len(table)
         THEN [table EXCEPT ![progress.id] =
                  [@ EXCEPT !.repetitions = progress.repetitions,
                            !.ease_factor = progress.ease_factor,
                            !.interval = progress.interval,
                            !.next_review = progress.next_review,
                            !.last_review = progress.last_review]]
         ELSE table
    ELSE Append(table, [progress EXCEPT !.id = Len(table) + 1])

StudySession(word_id, user_id, correct, response_time, timestamp, quality) ==
    [id |-> NoId, word_id |-> word_id, user_id |-> user_id, correct |-> correct,
     response_time |-> response_time, timestamp |-> timestamp, quality |-> quality]

SaveSessionRow_ReplacesLast(table, session) ==
    IF table = <<>>
    THEN <<[session EXCEPT !.id = 1]>>
    ELSE [table EXCEPT ![Len(table)] = [session EXCEPT !.id = Len(table)]]

\* SQLAlchemyStudySessionRepository.save: always adds a row
SaveSessionRow(table, session) == Append(table, [session EXCEPT !.id = Len(table) + 1])

---------------------------------------------------------------------------
(* application/handlers/command_handlers.py: SubmitAnswerCommandHandler.handle *)

\* The request slots: two calls can be in flight at once.
Procs == {"r1", "r2"}

StudySessionDto(word_id, user_id, quality, response_time) ==
    [word_id |-> word_id, user_id |-> user_id, quality |-> quality, response_time |-> response_time]

SessionInputs ==
    {StudySessionDto(w, u, q, t) :
        w \in WordIdInputs, u \in UserInputs, q \in QualityInputs, t \in ResponseTimeInputs}

NoData == StudySessionDto(0, "", 0, 0)
NoProgress == NewUserProgress("", 0)
NoOutcome == [kind |-> "none", arg |-> 0]
Raised(kind, arg) == [kind |-> kind, arg |-> arg]

\* A request slot with no call in it
IdleReq ==
    [pc |-> "idle", data |-> NoData, progress |-> NoProgress, seen |-> <<>>,
     outcome |-> NoOutcome, reads |-> 0, writes |-> 0]

\* A variant of Validate that checks the response time first.
Validate_ResponseTimeFirst(data) ==
    IF data.response_time < 0
    THEN Raised("InvalidResponseTimeException", data.response_time)
    ELSE IF data.quality < 0 \/ data.quality > 5
    THEN Raised("InvalidQualityException", data.quality)
    ELSE IF ~ValidWordId(data.word_id)
    THEN Raised("ValueError", 0)
    ELSE NoOutcome

\* Lines 45-56: what handle raises before its first repository call, NoOutcome if nothing.
Validate(data) ==
    IF data.quality < 0 \/ data.quality > 5
    THEN Raised("InvalidQualityException", data.quality)
    ELSE IF data.response_time < 0
    THEN Raised("InvalidResponseTimeException", data.response_time)
    ELSE IF ~ValidWordId(data.word_id)
    THEN Raised("ValueError", 0)
    ELSE NoOutcome

\* A variant of WordLookup that lets a missing word through.
WordLookup_NoCheck(words, data) ==
    IF ~ValidUserId(data.user_id)
    THEN Raised("ValueError", 0)
    ELSE NoOutcome

\* Lines 57-62: what handle raises after find_by_id returned, NoOutcome if nothing.
WordLookup(words, data) ==
    IF find_by_id(words, data.word_id) = {}
    THEN Raised("WordNotFoundException", data.word_id)
    ELSE IF ~ValidUserId(data.user_id)
    THEN Raised("ValueError", 0)
    ELSE NoOutcome

\* Lines 93-101: the DTO handle returns
StudySessionResponseDto(data, progress) ==
    [word_id |-> data.word_id, quality |-> data.quality, next_review |-> progress.next_review,
     repetitions |-> progress.repetitions, ease_factor |-> progress.ease_factor,
     interval_days |-> progress.interval]

---------------------------------------------------------------------------
(* application/handlers/command_handlers.py: GenerateStudyBlockCommandHandler.handle,
   with the two repository queries it awaits *)

LimitInputs == 0..MaxLimit

Min(a, b) == IF a <= b THEN a ELSE b

\* sum(...) of the values of f over the set S of its arguments
RECURSIVE SumOver(_, _)
SumOver(f, S) ==
    IF S = {}
    THEN 0
    ELSE LET x == CHOOSE y \in S : TRUE
         IN f[x] + SumOver(f, S \ {x})

Take_AtLeastOne(seq, n) == SubSeq(seq, 1, Min(Max(n, 1), Len(seq)))

\* seq[:n] and the LIMIT n of a query, for n >= 0
Take(seq, n) == SubSeq(seq, 1, Min(n, Len(seq)))

\* The orders in which a query without ORDER BY can return the rows S
Orders(S) ==
    {o \in [1..Cardinality(S) -> S] :
        \A i, j \in 1..Cardinality(S) : i # j => o[i] # o[j]}

\* The user_progress rows the filter of find_words_due_for_review keeps: a row
\* whose next_review is NULL does not satisfy next_review <= now.
DueRows(table, user_id, now) ==
    {i \in 1..Len(table) :
        /\ table[i].user_id = user_id
        /\ table[i].next_review # NoTime
        /\ table[i].next_review <= now}

UniqueWords_KeepsAll(table, rows) == rows

\* Query.all() on one mapped entity returns each WordModel once, at its first row.
RECURSIVE UniqueWords(_, _)
UniqueWords(table, rows) ==
    IF rows = <<>>
    THEN <<>>
    ELSE LET front == UniqueWords(table, SubSeq(rows, 1, Len(rows) - 1))
             last == rows[Len(rows)]
         IN IF \E k \in 1..Len(front) : table[front[k]].word_id = table[last].word_id
            THEN front
            ELSE Append(front, last)

\* The results find_words_due_for_review can return, each as the user_progress
\* rows behind the words returned: the join rows in some order, cut by LIMIT,
\* then one per word.
find_words_due_for_review(table, user_id, limit, now) ==
    {UniqueWords(table, Take(o, limit)) : o \in Orders(DueRows(table, user_id, now))}

UnstudiedWords(words, table, user_id) ==
    {w \in DOMAIN words : \A i \in 1..Len(table) :
        ~(table[i].user_id = user_id /\ table[i].word_id = w)}

\* The results find_unstudied_words can return, as word ids
find_unstudied_words(words, table, user_id, limit) ==
    {Take(o, limit) : o \in Orders(UnstudiedWords(words, table, user_id))}

DifficultyDistribution_OnePerLevel(words, ids) ==
    [level \in {words[ids[k]].difficulty_level : k \in 1..Len(ids)} |-> 1]

\* Lines 149-160: how many words of the block have each difficulty level
DifficultyDistribution(words, ids) ==
    [level \in {words[ids[k]].difficulty_level : k \in 1..Len(ids)} |->
        Cardinality({k \in 1..Len(ids) : words[ids[k]].difficulty_level = level})]

\* Line 146: strftime('%Y%m%d_%H%M%S') drops what the clock reading has below the
\* second.  The model's clock is coarse; what it keeps of the format is that
\* StampTicks successive readings give the same string.
Stamp(now) == IF now = NoTime THEN NoTime ELSE now \div StampTicks

\* What a GenerateStudyBlock call gave its caller.  due_rows is not part of the
\* DTO: it names, for the words find_words_due_for_review returned, the
\* user_progress rows they came from.
StudyBlockDto(user_id, limit, kind, ids, due_rows, now, words) ==
    [user_id |-> user_id, limit |-> limit, kind |-> kind,
     block_id |-> <<user_id, Stamp(now)>>, words |-> ids, due_rows |-> due_rows,
     created_at |-> now,
     difficulty_distribution |-> DifficultyDistribution(words, ids),
     total_words |-> Len(ids)]

NoBlock == StudyBlockDto("", 0, "none", <<>>, <<>>, NoTime, <<>>)

\* No GenerateStudyBlock result is on its way to a caller
NoBlockHeld == block.kind = "none"


\* Lines 133-138: the due words, then the new ones, cut to the limit
Assemble(due, new, limit) == Take(due \o new, limit)

\* What handle (lines 115-168) can give its caller when its clock readings are now
StudyBlocks(words, table, user_id, limit, now) ==
    IF ~ValidUserId(user_id)
    THEN {StudyBlockDto(user_id, limit, "ValueError", <<>>, <<>>, NoTime, <<>>)}
    ELSE UNION {
           LET due == [k \in 1..Len(due_rows) |-> table[due_rows[k]].word_id]
           IN {LET ids == Assemble(due, new, limit)
               IN IF ids = <<>>
                  THEN StudyBlockDto(user_id, limit, "NoWordsAvailableException",
                                     <<>>, <<>>, NoTime, <<>>)
                  ELSE StudyBlockDto(user_id, limit, "ok", ids,
                                     Take(due_rows, limit), now, words)
               : new \in (IF Len(due) < limit
                          THEN find_unstudied_words(words, table, user_id, limit - Len(due))
                          ELSE {<<>>})}
           : due_rows \in find_words_due_for_review(table, user_id, limit, now)}

GenerateBlock_MarksPresented(user_id, limit) ==
    /\ NoBlockHeld
    /\ block' \in StudyBlocks(wordTable, progressTable, user_id, limit, clock)
    /\ progressTable' =
            IF block'.kind = "ok"
            THEN SaveProgressRow(progressTable,
                     update_progress(NewUserProgress(user_id, block'.words[1]),
                                     4, clock, clock).progress)
            ELSE progressTable
    /\ UNCHANGED <<wordTable, sessionTable, req, clock, smVars, medVars, stats>>

\* The whole of handle (lines 115-168)
GenerateBlock(user_id, limit) ==
    /\ NoBlockHeld
    /\ block' \in StudyBlocks(wordTable, progressTable, user_id, limit, clock)
    /\ UNCHANGED <<hVars, clock, smVars, medVars, stats>>

\* The caller that has just been given a block or an exception calls handle again
\* with the same user_id and limit, at once or a tick later, nothing else having
\* happened in between.
GenerateBlockAgain ==
    /\ ~NoBlockHeld
    /\ \E d \in 0..1 :
        /\ clock + d <= MaxClock
        /\ clock' = clock + d
        /\ block' \in StudyBlocks(wordTable, progressTable, block.user_id, block.limit,
                                  clock + d)
    /\ UNCHANGED <<hVars, smVars, medVars, stats>>

\* The caller has the block or the exception.
ReturnBlock ==
    /\ ~NoBlockHeld
    /\ block' = NoBlock
    /\ UNCHANGED <<hVars, clock, smVars, medVars, stats>>

\* The calls not yet returned to their callers
InFlight == Cardinality({p \in Procs : req[p].pc # "idle"})

\* handle is called: lines 42-56 run up to the first await.  The model stops taking
\* calls once MaxCalls answers are recorded or under way.
SubmitWithin(p, data, budget) ==
    /\ req[p].pc = "idle"
    /\ Len(sessionTable) + InFlight < budget
    /\ LET failure == Validate(data)
       IN req' = [req EXCEPT ![p] =
                    IF failure # NoOutcome
                    THEN [IdleReq EXCEPT !.pc = "done", !.data = data, !.outcome = failure]
                    ELSE [IdleReq EXCEPT !.pc = "find_word", !.data = data]]
    /\ UNCHANGED <<dbVars, clock, smVars>>
    /\ NoBlockHeld
    /\ UNCHANGED <<block, medVars, stats>>

Submit(p, data) == SubmitWithin(p, data, MaxCalls)

\* await word_repository.find_by_id, then lines 58-62.
FindWord(p) ==
    /\ req[p].pc = "find_word"
    /\ LET failure == WordLookup(wordTable, req[p].data)
       IN req' = [req EXCEPT ![p] =
                    IF failure # NoOutcome
                    THEN [@ EXCEPT !.pc = "done", !.outcome = failure, !.reads = @ + 1]
                    ELSE [@ EXCEPT !.pc = "find_progress", !.reads = @ + 1]]
    /\ UNCHANGED <<dbVars, clock, smVars>>
    /\ NoBlockHeld
    /\ UNCHANGED <<block, medVars, stats>>

\* await user_progress_repository.find_by_user_and_word, then lines 65-76: the
\* entity read (or a new one) is updated in memory.  The clock may advance between
\* the two datetime.now() calls of update_progress.
FindProgress(p) ==
    /\ req[p].pc = "find_progress"
    /\ LET data == req[p].data
           rows == ProgressRowsFor(progressTable, data.user_id, data.word_id)
       IN \E d \in 0..1 :
            /\ clock + d <= MaxClock
            /\ clock' = clock + d
            /\ \/ /\ rows = {}
                  /\ req' = [req EXCEPT ![p] =
                        [@ EXCEPT !.pc = "save_progress", !.reads = @ + 1, !.seen = <<>>,
                                  !.progress = update_progress(
                                      NewUserProgress(data.user_id, data.word_id),
                                      data.quality, clock, clock + d).progress]]
               \/ \E i \in rows :
                    req' = [req EXCEPT ![p] =
                        [@ EXCEPT !.pc = "save_progress", !.reads = @ + 1,
                                  !.seen = <<progressTable[i]>>,
                                  !.progress = update_progress(
                                      progressTable[i], data.quality, clock, clock + d).progress]]
    /\ UNCHANGED <<dbVars, smVars>>
    /\ NoBlockHeld
    /\ UNCHANGED <<block, medVars, stats>>

\* await user_progress_repository.save(progress); the entity handle holds is not
\* replaced by the one save returns.
SaveProgress(p) ==
    /\ req[p].pc = "save_progress"
    /\ progressTable' = SaveProgressRow(progressTable, req[p].progress)
    /\ req' = [req EXCEPT ![p] = [@ EXCEPT !.pc = "save_session", !.writes = @ + 1]]
    /\ UNCHANGED <<wordTable, sessionTable, clock, smVars>>
    /\ NoBlockHeld
    /\ UNCHANGED <<block, medVars, stats>>

\* Lines 82-101: the StudySession is built and saved, and the DTO returned.
SaveSession(p) ==
    /\ req[p].pc = "save_session"
    /\ LET data == req[p].data
       IN sessionTable' = SaveSessionRow(sessionTable,
              StudySession(data.word_id, data.user_id, is_correct(data.quality),
                           data.response_time, req[p].progress.last_review, data.quality))
    /\ req' = [req EXCEPT ![p] =
                 [@ EXCEPT !.pc = "done", !.writes = @ + 1, !.outcome = Raised("ok", 0)]]
    /\ UNCHANGED <<wordTable, progressTable, clock, smVars>>
    /\ NoBlockHeld
    /\ UNCHANGED <<block, medVars, stats>>

\* The caller has the result or the exception; the slot is free again.
Return(p) ==
    /\ req[p].pc = "done"
    /\ req' = [req EXCEPT ![p] = IdleReq]
    /\ UNCHANGED <<dbVars, clock, smVars>>
    /\ NoBlockHeld
    /\ UNCHANGED <<block, medVars, stats>>

\* Time passes.
Tick ==
    /\ clock < MaxClock
    /\ clock' = clock + 1
    /\ UNCHANGED <<hVars, smVars>>
    /\ NoBlockHeld
    /\ UNCHANGED <<block, medVars, stats>>

---------------------------------------------------------------------------
(* application/handlers/query_handlers.py: GetWordStatsQueryHandler.handle *)

\* The word ids a caller asks statistics for
StatsInputs == WordIdInputs

\* round(num / den, 2), in hundredths
Hundredths(num, den) == (200 * num + den) \div (2 * den)

\* Lines 121-127: the DTO handle returns; accuracy_percentage and
\* average_response_time are in hundredths.
WordStatsDto(word_sessions, correct_attempts) ==
    LET total_attempts == Len(word_sessions)
        total_time == SumOver([k \in 1..total_attempts |-> word_sessions[k].response_time],
                              1..total_attempts)
    IN [total_attempts |-> total_attempts,
        correct_attempts |-> correct_attempts,
        accuracy_percentage |->
            IF total_attempts > 0 THEN Hundredths(correct_attempts * 100, total_attempts) ELSE 0,
        average_response_time |->
            IF total_attempts > 0 THEN Hundredths(total_time, total_attempts) ELSE 0]

NoStats == WordStatsDto(<<>>, 0)

\* No GetWordStats call in flight
IdleStats ==
    [pc |-> "idle", word_id |-> 0, word_sessions |-> <<>>, outcome |-> NoOutcome,
     result |-> NoStats]

\* StudySessionRepository.find_by_word: the session rows of a word
find_by_word(table, word_id) ==
    SelectSeq(table, LAMBDA session : session.word_id = word_id)

\* StudySessionRepository.count_correct_sessions: the number of correct session
\* rows of a word
count_correct_sessions(table, word_id) ==
    Cardinality({i \in 1..Len(table) : table[i].word_id = word_id /\ table[i].correct})

\* handle is called: line 95 runs up to the first await
GetWordStats(word_id) ==
    /\ stats.pc = "idle"
    /\ stats' = IF ~ValidWordId(word_id)
                THEN [IdleStats EXCEPT !.pc = "done", !.word_id = word_id,
                                       !.outcome = Raised("ValueError", 0)]
                ELSE [IdleStats EXCEPT !.pc = "find_by_id", !.word_id = word_id]
    /\ UNCHANGED <<hVars, clock, smVars, block, medVars>>

\* await word_repository.find_by_id, then lines 99-100
StatsFindWord ==
    /\ stats.pc = "find_by_id"
    /\ stats' = IF find_by_id(wordTable, stats.word_id) = {}
                THEN [stats EXCEPT !.pc = "done",
                                   !.outcome = Raised("WordNotFoundException", stats.word_id)]
                ELSE [stats EXCEPT !.pc = "find_by_word"]
    /\ UNCHANGED <<hVars, clock, smVars, block, medVars>>

\* await study_session_repository.find_by_word, then line 105
StatsFindSessions ==
    /\ stats.pc = "find_by_word"
    /\ stats' = [stats EXCEPT !.pc = "count_correct_sessions",
                              !.word_sessions = find_by_word(sessionTable, stats.word_id)]
    /\ UNCHANGED <<hVars, clock, smVars, block, medVars>>

\* await study_session_repository.count_correct_sessions, then lines 107-127
StatsCountCorrect ==
    /\ stats.pc = "count_correct_sessions"
    /\ stats' = [stats EXCEPT !.pc = "done", !.outcome = Raised("ok", 0),
                              !.result = WordStatsDto(stats.word_sessions,
                                             count_correct_sessions(sessionTable, stats.word_id))]
    /\ UNCHANGED <<hVars, clock, smVars, block, medVars>>

\* The caller has the statistics or the exception.
StatsReturn ==
    /\ stats.pc = "done"
    /\ stats' = IdleStats
    /\ UNCHANGED <<hVars, clock, smVars, block, medVars>>

---------------------------------------------------------------------------
(* application/mediator.py: CQRSMediator *)

\* The handler objects a caller registers; what their handle does is their own.
Handlers == {"h1", "h2"}

\* None: what dict.get gives for a key that is not there
NoHandler == "None"

\* The classes a caller registers and sends: two commands, their base class
\* Command (a class like any other to the dict), and a query
CommandTypes == {"SubmitAnswerCommand", "GenerateStudyBlockCommand", "Command"}
QueryTypes == {"GetUserProgressQuery"}
RequestTypes == CommandTypes \cup QueryTypes

\* A command or query object: its concrete type, and whether its data is such
\* that a handler given it raises.
Requests == {[type |-> t, fails |-> f] : t \in RequestTypes, f \in BOOLEAN}

\* The base class of a request class (commands/study_commands.py, queries/study_queries.py)
BaseOf(type) ==
    IF type \in {"SubmitAnswerCommand", "GenerateStudyBlockCommand"} THEN "Command"
    ELSE IF type = "GetUserProgressQuery" THEN "Query"
    ELSE "object"

\* dict.get(key)
DictGet(dict, key) ==
    IF \E e \in dict : e[1] = key
    THEN (CHOOSE e \in dict : e[1] = key)[2]
    ELSE NoHandler

DictSet_KeepsOld(dict, key, value) == dict \cup {<<key, value>>}

\* dict[key] = value
DictSet(dict, key, value) == {e \in dict : e[1] # key} \cup {<<key, value>>}

\* The handler objects get_mediator creates (infrastructure/dependencies.py), each
\* with the request class its handle accepts (the isinstance check that opens handle)
HandlerAccepts ==
    [submit_answer_handler |-> "SubmitAnswerCommand",
     generate_study_block_handler |-> "GenerateStudyBlockCommand",
     get_user_progress_handler |-> "GetUserProgressQuery",
     get_word_stats_handler |-> "GetWordStatsQuery",
     get_global_stats_handler |-> "GetGlobalStatsQuery",
     get_word_by_id_handler |-> "GetWordByIdQuery"]

\* await handler.handle(request): the handler returns its result or raises its
\* error; a handler of the application rejects a request that is not of its class.
Handle(handler, request) ==
    IF handler \in DOMAIN HandlerAccepts /\ HandlerAccepts[handler] # request.type
    THEN [kind |-> "rejected", value |-> <<handler, request>>]
    ELSE [kind |-> IF request.fails THEN "raised" ELSE "returned",
          value |-> <<handler, request>>]

\* A handler object is truthy: the handler classes define neither __bool__ nor __len__.
Truthy(handler) == handler # NoHandler

Dispatch_AnyHandler(dict, request) ==
    IF dict = {}
    THEN [invoked |-> <<>>, kind |-> "ValueError", value |-> <<request.type>>]
    ELSE LET handler == (CHOOSE e \in dict : TRUE)[2]
         IN [invoked |-> <<[handler |-> handler, request |-> request]>>,
             kind |-> Handle(handler, request).kind,
             value |-> Handle(handler, request).value]

Dispatch_FallsBackToBase(dict, request) ==
    LET exact == DictGet(dict, request.type)
        handler == IF Truthy(exact) THEN exact ELSE DictGet(dict, BaseOf(request.type))
    IN IF ~Truthy(handler)
       THEN [invoked |-> <<>>, kind |-> "ValueError", value |-> <<request.type>>]
       ELSE [invoked |-> <<[handler |-> handler, request |-> request]>>,
             kind |-> Handle(handler, request).kind,
             value |-> Handle(handler, request).value]

Dispatch_ReturnsNone(dict, request) ==
    LET handler == DictGet(dict, request.type)
    IN IF ~Truthy(handler)
       THEN [invoked |-> <<>>, kind |-> "returned", value |-> <<>>]
       ELSE [invoked |-> <<[handler |-> handler, request |-> request]>>,
             kind |-> Handle(handler, request).kind,
             value |-> Handle(handler, request).value]

Dispatch_RetriesOnError(dict, request) ==
    LET handler == DictGet(dict, request.type)
        call == [handler |-> handler, request |-> request]
    IN IF ~Truthy(handler)
       THEN [invoked |-> <<>>, kind |-> "ValueError", value |-> <<request.type>>]
       ELSE [invoked |-> IF request.fails THEN <<call, call>> ELSE <<call>>,
             kind |-> Handle(handler, request).kind,
             value |-> Handle(handler, request).value]

\* The body of send_command and of send_query (lines 45-51, 55-61) over its
\* registry: the handle calls made, and what the caller gets.
Dispatch(dict, request) ==
    LET handler == DictGet(dict, request.type)
    IN IF ~Truthy(handler)
       THEN [invoked |-> <<>>, kind |-> "ValueError", value |-> <<request.type>>]
       ELSE [invoked |-> <<[handler |-> handler, request |-> request]>>,
             kind |-> Handle(handler, request).kind,
             value |-> Handle(handler, request).value]

NoReply ==
    [via |-> "none", request |-> [type |-> "", fails |-> FALSE], kind |-> "none", value |-> <<>>]

InitMediator ==
    /\ command_handlers = {}
    /\ query_handlers = {}
    /\ registrations = <<>>
    /\ invoked = <<>>
    /\ reply = NoReply

register_command_handler(command_type, handler) ==
    /\ Len(registrations) < MaxRegistrations
    /\ command_handlers' = DictSet(command_handlers, command_type, handler)
    /\ registrations' = Append(registrations,
            [registry |-> "send_command", type |-> command_type, handler |-> handler])
    /\ invoked' = <<>>
    /\ reply' = NoReply
    /\ UNCHANGED <<query_handlers, hVars, clock, smVars, block, stats>>

register_query_handler(query_type, handler) ==
    /\ Len(registrations) < MaxRegistrations
    /\ query_handlers' = DictSet(query_handlers, query_type, handler)
    /\ registrations' = Append(registrations,
            [registry |-> "send_query", type |-> query_type, handler |-> handler])
    /\ invoked' = <<>>
    /\ reply' = NoReply
    /\ UNCHANGED <<command_handlers, hVars, clock, smVars, block, stats>>

send_command(command) ==
    /\ LET r == Dispatch(command_handlers, command)
       IN /\ invoked' = r.invoked
          /\ reply' = [via |-> "send_command", request |-> command,
                       kind |-> r.kind, value |-> r.value]
    /\ UNCHANGED <<command_handlers, query_handlers, registrations,
                   hVars, clock, smVars, block, stats>>

send_query(query) ==
    /\ LET r == Dispatch(query_handlers, query)
       IN /\ invoked' = r.invoked
          /\ reply' = [via |-> "send_query", request |-> query,
                       kind |-> r.kind, value |-> r.value]
    /\ UNCHANGED <<command_handlers, query_handlers, registrations,
                   hVars, clock, smVars, block, stats>>

\* One register_* call of get_mediator, as the log records it
Registration(registry, type, handler) ==
    [registry |-> registry, type |-> type, handler |-> handler]

\* The mediator get_mediator returns has been built (lru_cache keeps it)
Built == registrations # <<>>

get_mediator_ForgetsGlobalStats ==
    /\ ~Built
    /\ command_handlers' =
            DictSet(DictSet(command_handlers, "SubmitAnswerCommand", "submit_answer_handler"),
                    "GenerateStudyBlockCommand", "generate_study_block_handler")
    /\ query_handlers' =
            DictSet(DictSet(DictSet(query_handlers,
                "GetUserProgressQuery", "get_user_progress_handler"),
                "GetWordStatsQuery", "get_word_stats_handler"),
                "GetWordByIdQuery", "get_word_by_id_handler")
    /\ registrations' =
            <<Registration("send_command", "SubmitAnswerCommand", "submit_answer_handler"),
              Registration("send_command", "GenerateStudyBlockCommand",
                           "generate_study_block_handler"),
              Registration("send_query", "GetUserProgressQuery", "get_user_progress_handler"),
              Registration("send_query", "GetWordStatsQuery", "get_word_stats_handler"),
              Registration("send_query", "GetWordByIdQuery", "get_word_by_id_handler")>>
    /\ invoked' = <<>>
    /\ reply' = NoReply
    /\ UNCHANGED <<hVars, clock, smVars, block, stats>>

\* get_mediator (dependencies.py, lines 56-101): a new CQRSMediator and the six
\* register_* calls of lines 93-98
get_mediator ==
    /\ ~Built
    /\ command_handlers' =
            DictSet(DictSet(command_handlers, "SubmitAnswerCommand", "submit_answer_handler"),
                    "GenerateStudyBlockCommand", "generate_study_block_handler")
    /\ query_handlers' =
            DictSet(DictSet(DictSet(DictSet(query_handlers,
                "GetUserProgressQuery", "get_user_progress_handler"),
                "GetWordStatsQuery", "get_word_stats_handler"),
                "GetGlobalStatsQuery", "get_global_stats_handler"),
                "GetWordByIdQuery", "get_word_by_id_handler")
    /\ registrations' =
            <<Registration("send_command", "SubmitAnswerCommand", "submit_answer_handler"),
              Registration("send_command", "GenerateStudyBlockCommand",
                           "generate_study_block_handler"),
              Registration("send_query", "GetUserProgressQuery", "get_user_progress_handler"),
              Registration("send_query", "GetWordStatsQuery", "get_word_stats_handler"),
              Registration("send_query", "GetGlobalStatsQuery", "get_global_stats_handler"),
              Registration("send_query", "GetWordByIdQuery", "get_word_by_id_handler")>>
    /\ invoked' = <<>>
    /\ reply' = NoReply
    /\ UNCHANGED <<hVars, clock, smVars, block, stats>>

\* A request object the controller builds from the data of an HTTP request
ControllerRequest(type, data, fails) == [type |-> type, fails |-> fails, data |-> data]

\* presentation/controllers/study_controller.py: the routes, up to the answer of
\* the mediator they were given by Depends(get_mediator)
get_study_block(user_id, limit) ==
    /\ Built
    /\ \E fails \in BOOLEAN :
        send_command(ControllerRequest("GenerateStudyBlockCommand",
                                       [user_id |-> user_id, limit |-> limit], fails))

submit_answer(session_data) ==
    /\ Built
    /\ \E fails \in BOOLEAN :
        send_command(ControllerRequest("SubmitAnswerCommand", session_data, fails))

get_user_progress(user_id) ==
    /\ Built
    /\ \E fails \in BOOLEAN :
        send_query(ControllerRequest("GetUserProgressQuery", [user_id |-> user_id], fails))

get_word_info(word_id) ==
    /\ Built
    /\ \E fails \in BOOLEAN :
        send_query(ControllerRequest("GetWordStatsQuery", [word_id |-> word_id], fails))

get_global_stats ==
    /\ Built
    /\ \E fails \in BOOLEAN :
        send_query(ControllerRequest("GetGlobalStatsQuery", [user_id |-> ""], fails))

InitDb ==
    /\ wordTable = InitWordTable
    /\ progressTable = <<>>
    /\ sessionTable = <<>>
    /\ req = [p \in Procs |-> IdleReq]
    /\ block = NoBlock
    /\ InitMediator
    /\ stats = IdleStats

Init ==
    /\ InitDb
    /\ clock = 0
    /\ card = NoProgress
    /\ prior = NoProgress
    /\ lastQuality = 0
    /\ emitted = <<>>
    /\ answers = 0
    /\ history = <<>>

\* Spec: two request slots serve one learner's calls whose data passes the checks of
\* lines 45-56; their steps interleave at the repository calls.
ConcurrentInputs ==
    {data \in SessionInputs : Validate(data) = NoOutcome /\ data.user_id = "alice"}

Next ==
    \/ \E p \in Procs, data \in ConcurrentInputs : Submit(p, data)
    \/ \E p \in Procs : FindWord(p)
    \/ \E p \in Procs : FindProgress(p)
    \/ \E p \in Procs : SaveProgress(p)
    \/ \E p \in Procs : SaveSession(p)
    \/ \E p \in Procs : Return(p)
    \/ Tick

Spec == Init /\ [][Next]_vars

\* SpecInputs: one request slot serves calls with any data a caller can send, one
\* call after the other.
FirstProc == CHOOSE p \in Procs : TRUE

NextInputs ==
    \/ \E data \in SessionInputs : Submit(FirstProc, data)
    \/ FindWord(FirstProc)
    \/ FindProgress(FirstProc)
    \/ SaveProgress(FirstProc)
    \/ SaveSession(FirstProc)
    \/ Return(FirstProc)
    \/ Tick

SpecInputs == Init /\ [][NextInputs]_vars

\* SpecBlock: GenerateStudyBlock calls between SubmitAnswer calls that come one
\* after the other.
BlockAnswers ==
    {data \in ConcurrentInputs : data.word_id \in 1..NumWords /\ data.quality = 4}

NextBlock ==
    \/ \E data \in BlockAnswers : Submit(FirstProc, data)
    \/ FindWord(FirstProc)
    \/ FindProgress(FirstProc)
    \/ SaveProgress(FirstProc)
    \/ SaveSession(FirstProc)
    \/ Return(FirstProc)
    \/ Tick
    \/ \E user_id \in UserInputs, limit \in LimitInputs : GenerateBlock(user_id, limit)
    \/ GenerateBlockAgain
    \/ ReturnBlock

SpecBlock == Init /\ [][NextBlock]_vars

\* SpecBlockRace: GenerateStudyBlock calls amid SubmitAnswer calls whose steps
\* interleave on two request slots.
NextBlockRace ==
    \/ \E p \in Procs, data \in BlockAnswers : SubmitWithin(p, data, MaxRaceCalls)
    \/ \E p \in Procs : FindWord(p)
    \/ \E p \in Procs : FindProgress(p)
    \/ \E p \in Procs : SaveProgress(p)
    \/ \E p \in Procs : SaveSession(p)
    \/ \E p \in Procs : Return(p)
    \/ Tick
    \/ \E user_id \in UserInputs, limit \in LimitInputs : GenerateBlock(user_id, limit)
    \/ ReturnBlock

SpecBlockRace == Init /\ [][NextBlockRace]_vars

\* SpecBlockDup: as SpecBlockRace, with every answer given to the same item, so
\* that the item comes to have several user_progress rows.
DupAnswers == {data \in BlockAnswers : data.word_id = 1}

NextBlockDup ==
    \/ \E p \in Procs, data \in DupAnswers : Submit(p, data)
    \/ \E p \in Procs : FindWord(p)
    \/ \E p \in Procs : FindProgress(p)
    \/ \E p \in Procs : SaveProgress(p)
    \/ \E p \in Procs : SaveSession(p)
    \/ \E p \in Procs : Return(p)
    \/ Tick
    \/ \E user_id \in UserInputs, limit \in LimitInputs : GenerateBlock(user_id, limit)
    \/ ReturnBlock

SpecBlockDup == Init /\ [][NextBlockDup]_vars

\* SpecWired: the controller's routes send their requests through the mediator
\* get_mediator builds.
NextWired ==
    \/ get_mediator
    \/ \E user_id \in UserInputs, limit \in LimitInputs : get_study_block(user_id, limit)
    \/ \E session_data \in SessionInputs : submit_answer(session_data)
    \/ \E user_id \in UserInputs : get_user_progress(user_id)
    \/ \E word_id \in WordIdInputs : get_word_info(word_id)
    \/ get_global_stats

SpecWired == Init /\ [][NextWired]_vars

\* SpecStats: one request slot serves SubmitAnswer calls while GetWordStats calls
\* run, their steps interleaving at the repository calls.
NextStats ==
    \/ \E data \in ConcurrentInputs : Submit(FirstProc, data)
    \/ FindWord(FirstProc)
    \/ FindProgress(FirstProc)
    \/ SaveProgress(FirstProc)
    \/ SaveSession(FirstProc)
    \/ Return(FirstProc)
    \/ Tick
    \/ \E word_id \in StatsInputs : GetWordStats(word_id)
    \/ StatsFindWord
    \/ StatsFindSessions
    \/ StatsCountCorrect
    \/ StatsReturn

SpecStats == Init /\ [][NextStats]_vars

\* SpecBlockLevels: GenerateStudyBlock calls over any table of NumWords words, each
\* with a difficulty level DifficultyLevel accepts.
DifficultyLevels == 1..5

WordTables ==
    {[w \in 1..NumWords |-> Word(w, level[w])] : level \in [1..NumWords -> DifficultyLevels]}

InitLevels ==
    /\ wordTable \in WordTables
    /\ progressTable = <<>>
    /\ sessionTable = <<>>
    /\ req = [p \in Procs |-> IdleReq]
    /\ block = NoBlock
    /\ InitMediator
    /\ stats = IdleStats
    /\ clock = 0
    /\ card = NoProgress
    /\ prior = NoProgress
    /\ lastQuality = 0
    /\ emitted = <<>>
    /\ answers = 0
    /\ history = <<>>

NextLevels ==
    \/ \E user_id \in UserInputs, limit \in LimitInputs : GenerateBlock(user_id, limit)
    \/ ReturnBlock

SpecBlockLevels == InitLevels /\ [][NextLevels]_vars

\* SpecMediator: handlers are registered and requests sent through one mediator;
\* a request of any type can be handed to either send method.
NextMediator ==
    \/ \E t \in CommandTypes, h \in Handlers : register_command_handler(t, h)
    \/ \E t \in QueryTypes, h \in Handlers : register_query_handler(t, h)
    \/ \E x \in Requests : send_command(x)
    \/ \E x \in Requests : send_query(x)

SpecMediator == Init /\ [][NextMediator]_vars

---------------------------------------------------------------------------
(* SpecSM: update_progress applied to any valid entity *)

InitCards ==
    {UserProgress(1, "alice", 1, r, e, i, NoTime, NoTime) :
        r \in 0..MaxInitReps, e \in MinEase..MaxInitEase, i \in 1..MaxInitInterval}

InitSM ==
    /\ card \in InitCards
    /\ ValidProgress(card)
    /\ prior = card
    /\ lastQuality = 0
    /\ emitted = <<>>
    /\ answers = 0
    /\ history = <<>>
    /\ clock = 0
    /\ InitDb

\* One update_progress call on the entity; the clock may advance between its two
\* datetime.now() calls.
ApplyAnswer(quality) ==
    /\ \E d \in 0..1 :
        /\ clock + d <= MaxClock
        /\ LET r == update_progress(card, quality, clock, clock + d)
           IN /\ card' = r.progress
              /\ emitted' = r.events
        /\ clock' = clock + d
    /\ prior' = card
    /\ lastQuality' = quality
    /\ answers' = answers + 1
    /\ UNCHANGED <<hVars, block, medVars, stats>>

Answer(quality) ==
    /\ answers < MaxAnswers
    /\ ApplyAnswer(quality)
    /\ UNCHANGED history

NextSM == \E quality \in Qualities : Answer(quality)

SpecSM == InitSM /\ [][NextSM]_vars

---------------------------------------------------------------------------
(* SpecFresh: a sequence of update_progress calls on an entity built with the
   dataclass defaults, as handle builds it for a pair with no stored progress *)

InitFresh ==
    /\ card = NewUserProgress("alice", 1)
    /\ prior = card
    /\ lastQuality = 0
    /\ emitted = <<>>
    /\ answers = 0
    /\ history = <<>>
    /\ clock = 0
    /\ InitDb

IsWordLearned(event) == event.type = "WordLearned"

FreshAnswer(quality) ==
    /\ answers < MaxFreshAnswers
    /\ ApplyAnswer(quality)
    /\ history' = Append(history,
            [quality |-> quality,
             learned |-> \E i \in 1..Len(emitted') : IsWordLearned(emitted'[i])])

NextFresh == \E quality \in Qualities : FreshAnswer(quality)

SpecFresh == InitFresh /\ [][NextFresh]_vars

---------------------------------------------------------------------------
(* SpecRun: a longer sequence of update_progress calls on the default entity,
   long enough for the ease factor to fall from 2.5 to its floor; only the
   entity before and after the last call is kept, and all calls read the same
   clock value (the clock has no part in repetitions, interval or ease_factor) *)

RunAnswer(quality) ==
    /\ answers < MaxRunAnswers
    /\ LET r == update_progress(card, quality, clock, clock)
       IN /\ card' = r.progress
          /\ emitted' = r.events
    /\ prior' = card
    /\ lastQuality' = quality
    /\ answers' = answers + 1
    /\ UNCHANGED <<history, clock, hVars, block, medVars, stats>>

NextRun == \E quality \in Qualities : RunAnswer(quality)

SpecRun == InitFresh /\ [][NextRun]_vars

---------------------------------------------------------------------------
(* Claims about update_progress, checked under SpecSM *)

Answered == answers > 0

\* C1: for every prior state and every quality in {0,1,2}, update_progress leaves
\* repetitions = 0 and interval = 1.
C1_IncorrectResets ==
    (Answered /\ lastQuality < 3) => (card.repetitions = 0 /\ card.interval = 1)

C1_Witness ==
    /\ Answered /\ lastQuality < 3
    /\ prior.repetitions >= 2 /\ prior.interval > 1
    /\ card.repetitions = 0 /\ card.interval = 1

\* C2: for every quality in {3,4,5}, update_progress increments repetitions by
\* exactly 1; the interval becomes 1 when the prior repetitions was 0 and 6 when
\* it was 1, whatever the prior interval and ease factor.
C2_FirstAndSecondCorrect ==
    (Answered /\ lastQuality >= 3) =>
        /\ card.repetitions = prior.repetitions + 1
        /\ (prior.repetitions = 0 => card.interval = 1)
        /\ (prior.repetitions = 1 => card.interval = 6)

C2_Witness ==
    /\ Answered /\ lastQuality >= 3
    /\ prior.repetitions = 1 /\ prior.interval = 3 /\ prior.ease_factor # DefaultEase
    /\ card.repetitions = 2 /\ card.interval = 6

\* C3: for every quality in {3,4,5} and prior repetitions >= 2, the interval
\* becomes floor(prior interval * prior ease factor): the ease factor as it was
\* before this answer's ease-factor update.
C3_IntervalFromOldEase ==
    (Answered /\ lastQuality >= 3 /\ prior.repetitions >= 2) =>
        /\ card.repetitions = prior.repetitions + 1
        /\ card.interval = (prior.interval * prior.ease_factor) \div 100

\* prior repetitions 2, interval 6, ease 2.5, quality 5: interval 15 (6 * 2.5), where
\* the updated ease 2.6 would have given 15.6 -> 15, and quality 3 on interval 7
\* gives 17 (7 * 2.5) where the updated 2.36 would have given 16.
C3_Witness ==
    /\ Answered /\ lastQuality = 3
    /\ prior.repetitions = 2 /\ prior.interval = 7 /\ prior.ease_factor = DefaultEase
    /\ card.repetitions = 3 /\ card.interval = 17 /\ card.ease_factor = 236

\* C4: ease_factor >= 1.3 in every state reachable from a valid entity by any
\* sequence of update_progress calls with qualities 0..5.
C4_EaseFloor == card.ease_factor >= MinEase

\* The clamp acted: the raw update would have gone below 1.3.
C4_Witness ==
    /\ Answered /\ lastQuality = 3
    /\ prior.ease_factor + EaseDelta(lastQuality) < MinEase
    /\ card.ease_factor = MinEase

\* C5: for a fixed prior state the resulting ease factor is non-decreasing in
\* quality: the ease after the answer given is at most the ease any higher
\* quality would have produced from the same prior state, and at least the ease
\* any lower quality would have produced.
C5_EaseMonotoneInQuality ==
    Answered =>
        /\ \A q2 \in lastQuality..5 :
              card.ease_factor <= Sm2(prior, q2).ease_factor
        /\ \A q1 \in 0..lastQuality :
              Sm2(prior, q1).ease_factor <= card.ease_factor

\* C6: on every answer, incorrect ones included, the ease factor is recomputed as
\* max(1.3, old + (0.1 - (5-q)*(0.08 + (5-q)*0.02))).
C6_EaseAlwaysRecomputed ==
    Answered => card.ease_factor = Max(MinEase, prior.ease_factor + EaseDelta(lastQuality))

---------------------------------------------------------------------------
(* Claims about concurrent SubmitAnswer calls, checked under Spec *)

SessionRowsFor(table, user_id, word_id) ==
    {i \in 1..Len(table) : table[i].user_id = user_id /\ table[i].word_id = word_id}

\* No call is between its first repository read and its return
Quiescent == \A p \in Procs : req[p].pc \in {"idle", "done"}

\* C7: concurrent SubmitAnswer calls for one (learner, item) pair never interleave
\* their read-modify-write, so no update is lost: once the calls have returned, a
\* pair that has only correct answers on record has a persisted state whose
\* repetitions is the number of those answers (two correct answers advance it by two).
C7_NoLostUpdate ==
    \A u \in UserInputs, w \in WordIdInputs :
        LET sessions == SessionRowsFor(sessionTable, u, w)
        IN (/\ Quiescent
            /\ sessions # {}
            /\ \A i \in sessions : sessionTable[i].correct)
           => \E r \in ProgressRowsFor(progressTable, u, w) :
                 progressTable[r].repetitions = Cardinality(sessions)

\* C8: in every reachable state at most one persisted progress row exists per
\* (learner, item) pair.
C8_OneRowPerPair ==
    \A u \in UserInputs, w \in WordIdInputs :
        Cardinality(ProgressRowsFor(progressTable, u, w)) <= 1

---------------------------------------------------------------------------
(* Claims about SubmitAnswer's validation, checked under SpecInputs *)

QualityInRange(data) == data.quality >= 0 /\ data.quality <= 5

\* C9: a call with quality outside [0,5] fails with InvalidQuality, a call with a
\* valid quality and a negative response time fails with InvalidResponseTime, and
\* either failure happens before any repository is read or written.
C9_ValidationFirst ==
    \A p \in Procs :
        LET r == req[p]
        IN /\ (r.pc = "done" /\ ~QualityInRange(r.data))
                => r.outcome = Raised("InvalidQualityException", r.data.quality)
           /\ (r.pc = "done" /\ QualityInRange(r.data) /\ r.data.response_time < 0)
                => r.outcome = Raised("InvalidResponseTimeException", r.data.response_time)
           /\ r.outcome.kind \in {"InvalidQualityException", "InvalidResponseTimeException"}
                => (r.reads = 0 /\ r.writes = 0)
           /\ r.pc \notin {"idle", "done"}
                => (QualityInRange(r.data) /\ r.data.response_time >= 0)

\* A call whose quality and response time are both invalid, for a word that is not
\* stored, made after an answer has been recorded, has failed with InvalidQuality.
C9_Witness ==
    \E p \in Procs :
        /\ req[p].outcome.kind = "InvalidQualityException"
        /\ req[p].data.response_time < 0
        /\ find_by_id(wordTable, req[p].data.word_id) = {}
        /\ Len(sessionTable) > 0

FailedBeforeUpdate(r) ==
    r.outcome.kind \in {"InvalidQualityException", "InvalidResponseTimeException",
                        "WordNotFoundException"}

\* C10 as stated: for every integer item id for which no item exists, a call with
\* valid quality and response time fails with ItemNotFound{itemId}; and a call that
\* fails with InvalidQuality, InvalidResponseTime or ItemNotFound has written nothing.
C10_MissingItemNotFound ==
    \A p \in Procs :
        LET r == req[p]
        IN /\ (/\ r.pc = "done"
               /\ QualityInRange(r.data) /\ r.data.response_time >= 0
               /\ find_by_id(wordTable, r.data.word_id) = {})
                => r.outcome = Raised("WordNotFoundException", r.data.word_id)
           /\ FailedBeforeUpdate(r) => r.writes = 0

\* C10 as amended: for every positive item id for which no item exists, a call with
\* valid quality and response time fails with ItemNotFound{itemId}; for an item id
\* <= 0 it fails with ValueError before any repository is read; and a call that
\* fails with InvalidQuality, InvalidResponseTime, ItemNotFound or that ValueError
\* has written nothing and never got past the word lookup.
C10_PositiveMissingItemNotFound ==
    \A p \in Procs :
        LET r == req[p]
            valid == QualityInRange(r.data) /\ r.data.response_time >= 0
        IN /\ (/\ r.pc = "done" /\ valid /\ r.data.word_id > 0
               /\ find_by_id(wordTable, r.data.word_id) = {})
                => (r.outcome = Raised("WordNotFoundException", r.data.word_id) /\ r.reads = 1)
           /\ (r.pc = "done" /\ valid /\ r.data.word_id <= 0)
                => (r.outcome = Raised("ValueError", 0) /\ r.reads = 0)
           /\ (FailedBeforeUpdate(r) \/ r.outcome.kind = "ValueError") => r.writes = 0
           /\ r.pc \in {"find_progress", "save_progress", "save_session"}
                => find_by_id(wordTable, r.data.word_id) # {}

\* A call for a positive id that names no word, made after an answer has been
\* recorded, has failed with ItemNotFound for that id.
C10_Witness ==
    \E p \in Procs :
        /\ req[p].outcome = Raised("WordNotFoundException", NumWords + 1)
        /\ Len(progressTable) > 0
        /\ Len(sessionTable) > 0

---------------------------------------------------------------------------
(* Claims about one SubmitAnswer call at a time, checked under SpecInputs *)

FreshState(user_id, word_id) ==
    [id |-> 0, user_id |-> user_id, word_id |-> word_id, repetitions |-> 0,
     ease_factor |-> 250, interval |-> 1, next_review |-> -1, last_review |-> -1]

SameSchedule(a, b) ==
    /\ a.repetitions = b.repetitions
    /\ a.ease_factor = b.ease_factor
    /\ a.interval = b.interval

\* The step of slot p in which the stored state is looked up and updated in memory
ReadStep(p) == req[p].pc = "find_progress" /\ req'[p].pc = "save_progress"

\* The step of slot p in which the updated state is persisted
PersistStep(p) == req[p].pc = "save_progress" /\ req'[p].pc = "save_session"

\* C11: when no progress row exists for the (learner, item) pair the call applies
\* the transition to a fresh default state (repetitions 0, ease 2.5, interval 1,
\* no timestamps) and persists exactly one new row; when one exists it applies
\* the transition to that row and creates no new one.
C11_LoadOrDefault ==
    [][\A p \in Procs :
        LET data == req[p].data
            rows == ProgressRowsFor(progressTable, data.user_id, data.word_id)
            held == req[p].progress
        IN /\ ReadStep(p) =>
                IF rows = {}
                THEN /\ req'[p].progress.id = 0
                     /\ SameSchedule(req'[p].progress,
                                     Sm2(FreshState(data.user_id, data.word_id), data.quality))
                ELSE \E i \in rows :
                     /\ req'[p].progress.id = progressTable[i].id
                     /\ SameSchedule(req'[p].progress, Sm2(progressTable[i], data.quality))
           /\ PersistStep(p) =>
                IF rows = {}
                THEN /\ Len(progressTable') = Len(progressTable) + 1
                     /\ SubSeq(progressTable', 1, Len(progressTable)) = progressTable
                     /\ progressTable'[Len(progressTable')] =
                            [held EXCEPT !.id = Len(progressTable) + 1]
                     /\ held.id = 0
                ELSE /\ Len(progressTable') = Len(progressTable)
                     /\ held.id \in rows
                     /\ progressTable'[held.id] = held
                     /\ \A i \in 1..Len(progressTable) :
                            i # held.id => progressTable'[i] = progressTable[i]
      ]_vars

\* A second answer to an item has been persisted onto the row the first one made.
C11_Witness ==
    \E p \in Procs :
        /\ req[p].pc = "save_session"
        /\ req[p].seen # <<>>
        /\ Len(sessionTable) = 1
        /\ Len(progressTable) = 1
        /\ progressTable[1] = req[p].progress
        /\ progressTable[1] # req[p].seen[1]

\* C12: the session row of a successful call has correct = (quality >= 3) and a
\* timestamp equal to the last_review of the progress that call updated and
\* persisted, not a later reading of the clock.
C12_SessionMatchesProgress ==
    /\ \A i \in 1..Len(sessionTable) :
            sessionTable[i].correct = (sessionTable[i].quality >= 3)
    /\ \A p \in Procs :
            req[p].outcome.kind = "ok" =>
                LET session == sessionTable[Len(sessionTable)]
                    rows == ProgressRowsFor(progressTable, req[p].data.user_id,
                                            req[p].data.word_id)
                IN /\ session.quality = req[p].data.quality
                   /\ session.timestamp = req[p].progress.last_review
                   /\ \A i \in rows : progressTable[i].last_review = session.timestamp

\* An incorrect answer was recorded, and the clock moved on before the call ended.
C12_Witness ==
    \E p \in Procs :
        /\ req[p].outcome.kind = "ok"
        /\ req[p].data.quality = 2
        /\ ~sessionTable[Len(sessionTable)].correct
        /\ sessionTable[Len(sessionTable)].timestamp >= 0
        /\ clock > sessionTable[Len(sessionTable)].timestamp

\* The step of slot p in which its call succeeds
SucceedStep(p) == req[p].outcome.kind # "ok" /\ req'[p].outcome.kind = "ok"

\* C13: the session rows are an append-only log.  Every step in which a call
\* succeeds adds exactly one row, and no other step adds, changes or removes a
\* row, so the number of rows is the number of successful calls so far.
C13_AppendOnlyLog ==
    [][/\ (\E p \in Procs : SucceedStep(p)) =>
            /\ Len(sessionTable') = Len(sessionTable) + 1
            /\ SubSeq(sessionTable', 1, Len(sessionTable)) = sessionTable
       /\ (\A p \in Procs : ~SucceedStep(p)) => sessionTable' = sessionTable
      ]_vars

\* A second successful call has added its row after the first one's.
C13_Witness ==
    /\ Len(sessionTable) = 2
    /\ sessionTable[1].id = 1
    /\ sessionTable[2].id = 2
    /\ \E p \in Procs : req[p].outcome.kind = "ok"

---------------------------------------------------------------------------
(* Claims about the events and timestamps of update_progress *)

C15_LearnedOnce ==
    LET learnedAt == {i \in 1..Len(history) : history[i].learned}
    IN /\ Cardinality(learnedAt) <= 1
       /\ \A i \in learnedAt :
            /\ history[i].quality >= 3
            /\ \A j \in 1..(i - 1) : history[j].quality < 3

\* C16: after every update_progress, last_review is the time of the answer and
\* next_review is last_review plus exactly interval days, even when the clock
\* advances while the update runs.
C16_OneNow ==
    Answered =>
        /\ card.last_review \in 0..clock
        /\ card.next_review = card.last_review + card.interval * TicksPerDay

---------------------------------------------------------------------------
(* Claims about GenerateStudyBlock *)

BlockOk == block.kind = "ok"

\* The items due for the learner of the block just generated, and the items that
\* learner has never answered
DueItems == {progressTable[i].word_id : i \in DueRows(progressTable, block.user_id, clock)}
NewItems == UnstudiedWords(wordTable, progressTable, block.user_id)

\* C17: a block generated with limit L for a learner with D items due and U items
\* never answered holds exactly min(L, D + U) items, total_words is the number of
\* items returned, and every due item in it precedes every new item.
C17_BlockSize ==
    BlockOk =>
        /\ Len(block.words) = Min(block.limit, Cardinality(DueItems) + Cardinality(NewItems))
        /\ block.total_words = Len(block.words)
        /\ \A k, l \in 1..Len(block.words) :
                (block.words[k] \in DueItems /\ block.words[l] \in NewItems) => k < l

\* C18: no block holds the same item id twice, in any reachable state of the
\* tables, states in which a due item has more than one user_progress row included.
C18_NoDuplicateItems ==
    BlockOk =>
        \A k, l \in 1..Len(block.words) : k # l => block.words[k] # block.words[l]

\* A block of two items was generated while its due item had two due rows.
C18_Witness ==
    /\ BlockOk
    /\ Len(block.words) = 2
    /\ \E i, j \in DueRows(progressTable, block.user_id, clock) :
            /\ i # j
            /\ progressTable[i].word_id = progressTable[j].word_id
            /\ progressTable[i].word_id = block.words[1]

\* C19: the due items of a block are in ascending next_review order, ties in
\* ascending item id order, and when more items are due than the block takes the
\* block holds those with the earliest next_review.
C19_DueOrder ==
    BlockOk =>
        /\ \A k, l \in 1..Len(block.due_rows) :
                k < l =>
                    LET a == progressTable[block.due_rows[k]]
                        b == progressTable[block.due_rows[l]]
                    IN \/ a.next_review < b.next_review
                       \/ a.next_review = b.next_review /\ a.word_id < b.word_id
        /\ \A k \in 1..Len(block.due_rows) :
           \A i \in DueRows(progressTable, block.user_id, clock) :
                progressTable[i].word_id \notin {block.words[m] : m \in 1..Len(block.words)}
                    => progressTable[block.due_rows[k]].next_review
                            <= progressTable[i].next_review

\* C20: for a learner, GenerateStudyBlock raises NoWordsAvailableException exactly
\* when the limit is 0 or the learner has neither a due item nor a never-answered
\* item; otherwise it returns a block, and a block is never empty.
C20_EmptyRaises ==
    (~NoBlockHeld /\ ValidUserId(block.user_id)) =>
        /\ block.kind \in {"ok", "NoWordsAvailableException"}
        /\ (block.kind = "NoWordsAvailableException") <=>
                (block.limit = 0 \/ (DueItems = {} /\ NewItems = {}))
        /\ BlockOk => (Len(block.words) >= 1 /\ block.total_words >= 1)

\* The call failed for limit 0 although an item was due and another was new.
C20_Witness ==
    /\ block.kind = "NoWordsAvailableException"
    /\ block.limit = 0
    /\ DueItems # {} /\ NewItems # {}

\* C21: in every block returned, difficulty_distribution has as keys exactly the
\* difficulty levels (all in 1..5) that occur among the block's items, maps each
\* to the number of items of that level (at least 1), and its counts sum to
\* total_words.
C21_DifficultyCounts ==
    BlockOk =>
        LET dist == block.difficulty_distribution
            levelAt == [k \in 1..Len(block.words) |-> wordTable[block.words[k]].difficulty_level]
        IN /\ DOMAIN dist \subseteq 1..5
           /\ DOMAIN dist = {levelAt[k] : k \in 1..Len(block.words)}
           /\ \A level \in DOMAIN dist :
                /\ dist[level] = Cardinality({k \in 1..Len(block.words) : levelAt[k] = level})
                /\ dist[level] >= 1
           /\ SumOver(dist, DOMAIN dist) = block.total_words

\* A block of two items of one level: that level counts 2.
C21_Witness ==
    /\ BlockOk
    /\ block.total_words = 2
    /\ DOMAIN block.difficulty_distribution = {5}
    /\ block.difficulty_distribution[5] = 2

\* A step in which the caller of a block is given a second one for the same
\* user_id and limit, no SubmitAnswer step having come between the two calls
SecondBlock ==
    /\ BlockOk
    /\ block'.kind = "ok"
    /\ block'.user_id = block.user_id
    /\ block'.limit = block.limit

\* C22: two GenerateStudyBlock calls for the same learner and limit with no
\* SubmitAnswer between them return the same items in the same order.
C22_SameItemsAgain ==
    [][SecondBlock => block'.words = block.words]_vars

\* C23: two GenerateStudyBlock calls for the same learner return different
\* block_id values, also when both are served within the same second.
C23_DistinctBlockIds ==
    [][SecondBlock => block'.block_id # block.block_id]_vars

---------------------------------------------------------------------------
(* Claims about the mediator, checked under SpecMediator *)

\* The register_* calls so far for the registry a send method reads and a type
RegistrationsOf(via, type) ==
    {i \in 1..Len(registrations) :
        registrations[i].registry = via /\ registrations[i].type = type}

\* The handler of the last of them
LastRegistered(via, type) ==
    LET last == CHOOSE i \in RegistrationsOf(via, type) :
                    \A j \in RegistrationsOf(via, type) : j <= i
    IN registrations[last].handler

Sent == reply.kind # "none"

\* C24: once a handler is registered for a request type, sending an instance of
\* that type through the matching send method calls that handler's handle exactly
\* once with the instance, calls no other handler, and gives the caller what the
\* handler gave.
C24_RoundTrip ==
    (Sent /\ RegistrationsOf(reply.via, reply.request.type) # {}) =>
        LET H == LastRegistered(reply.via, reply.request.type)
        IN /\ invoked = <<[handler |-> H, request |-> reply.request]>>
           /\ reply.kind = Handle(H, reply.request).kind
           /\ reply.value = Handle(H, reply.request).value

\* A command was answered by its handler while the registry held another handler
\* for another type.
C24_Witness ==
    /\ Sent
    /\ reply.via = "send_command"
    /\ reply.kind = "returned"
    /\ Len(invoked) = 1
    /\ \E e \in command_handlers :
            e[1] # reply.request.type /\ e[2] # invoked[1].handler

Registry(via) == IF via = "send_command" THEN command_handlers ELSE query_handlers

\* C25: after any sequence of registrations each registry holds, for every type
\* registered in it, exactly one handler, the one registered last, and holds
\* nothing for other types; a send is routed to that handler only.
C25_LastRegistrationWins ==
    /\ \A via \in {"send_command", "send_query"}, t \in RequestTypes :
            {e \in Registry(via) : e[1] = t} =
                IF RegistrationsOf(via, t) = {}
                THEN {}
                ELSE {<<t, LastRegistered(via, t)>>}
    /\ Sent =>
            \A i \in 1..Len(invoked) :
                /\ RegistrationsOf(reply.via, reply.request.type) # {}
                /\ invoked[i].handler = LastRegistered(reply.via, reply.request.type)

\* A type was registered twice with different handlers and a request of that type
\* went to the second.
C25_Witness ==
    /\ Sent
    /\ Len(invoked) = 1
    /\ \E i, j \in RegistrationsOf(reply.via, reply.request.type) :
            /\ i < j
            /\ registrations[i].handler # registrations[j].handler
            /\ invoked[1].handler = registrations[j].handler
    /\ Cardinality(Registry(reply.via)) = 1

\* A step in which a send method gives its caller something new
SendStep == reply' # reply /\ reply'.kind # "none"

\* C26: sending a request whose type has no handler in the registry of the send
\* method raises the error naming the request type, calls no handler, and leaves
\* both registries and the tables unchanged.
C26_UnregisteredFails ==
    [][(SendStep /\ RegistrationsOf(reply'.via, reply'.request.type) = {}) =>
            /\ reply'.kind = "ValueError"
            /\ reply'.value = <<reply'.request.type>>
            /\ invoked' = <<>>
            /\ UNCHANGED <<command_handlers, query_handlers, dbVars>>
      ]_vars

\* A command type with a handler in the command registry was sent as a query.
C26_Witness ==
    /\ reply.kind = "ValueError"
    /\ reply.via = "send_query"
    /\ invoked = <<>>
    /\ \E e \in command_handlers : e[1] = reply.request.type
    /\ query_handlers # {}

\* C27: when the handler raises, the caller gets that same error; the handler is
\* called once per send whether it returns or raises.
C27_ErrorPassedOn ==
    (Sent /\ reply.kind # "ValueError") =>
        /\ Len(invoked) = 1
        /\ invoked[1].request = reply.request
        /\ reply.request.fails =>
                /\ reply.kind = "raised"
                /\ reply.value = <<invoked[1].handler, reply.request>>
        /\ ~reply.request.fails => reply.kind = "returned"

\* A handler raised and was not called again.
C27_Witness ==
    /\ Sent
    /\ reply.kind = "raised"
    /\ reply.request.fails
    /\ Len(invoked) = 1

---------------------------------------------------------------------------
(* Claims about the due set of a block *)

\* The learner's user_progress rows, and those is_due_for_review holds of
RowsOfLearner == {i \in 1..Len(progressTable) : progressTable[i].user_id = block.user_id}
DueByEntity == {i \in RowsOfLearner : is_due_for_review(progressTable[i], clock)}

\* C28: the due items a block was built from are, up to the limit, exactly the
\* learner's items whose progress satisfies is_due_for_review (next_review unset
\* or next_review <= now), and an item with a progress that is not due is in no
\* block.
C28_DueSetIsDue ==
    BlockOk =>
        LET fetched == {progressTable[block.due_rows[k]].word_id :
                            k \in 1..Len(block.due_rows)}
            dueItems == {progressTable[i].word_id : i \in DueByEntity}
        IN /\ fetched \subseteq dueItems
           /\ Cardinality(fetched) <= block.limit
           /\ Cardinality(fetched) < block.limit => fetched = dueItems
           /\ \A i \in RowsOfLearner \ DueByEntity :
                \A k \in 1..Len(block.words) : block.words[k] # progressTable[i].word_id

---------------------------------------------------------------------------
(* Claims about sequences of answers from the default entity, checked under SpecFresh *)

\* C29: in every state reached from the default entity by answers with qualities
\* in 0..5, repetitions >= 0 and interval >= 1.
C29_FieldRanges ==
    /\ card.repetitions >= 0
    /\ card.interval >= 1

\* Three correct answers: the interval has grown past the fixed steps 1 and 6.
C29_Witness ==
    /\ Len(history) = 3
    /\ card.repetitions = 3
    /\ card.interval > 6

\* The length of the run of answers with quality >= 3 that ends the sequence
RECURSIVE TrailingCorrect(_)
TrailingCorrect(seq) ==
    IF seq = <<>> \/ seq[Len(seq)].quality < 3
    THEN 0
    ELSE 1 + TrailingCorrect(SubSeq(seq, 1, Len(seq) - 1))

\* C30: after any sequence of answers applied to the default entity, repetitions
\* is the length of the trailing run of answers with quality >= 3.
C30_RepetitionsAreTrailingRun ==
    card.repetitions = TrailingCorrect(history)

\* Correct, incorrect, correct, correct: three correct answers, a run of two.
C30_Witness ==
    /\ Len(history) = 4
    /\ history[1].quality >= 3
    /\ history[2].quality < 3
    /\ history[3].quality >= 3
    /\ history[4].quality >= 3
    /\ card.repetitions = 2

---------------------------------------------------------------------------
(* Claims about long runs of answers from the default entity, checked under SpecRun *)

\* C31: from the default entity, a correct answer (quality 3..5) never lowers
\* interval, and from the second correct answer of a run onwards it raises it
\* (1, 6, then floor(interval * ease_factor) > interval), also when ease_factor
\* is at its floor of 1.3.
C31_IntervalGrows ==
    (answers > 0 /\ lastQuality >= 3) =>
        /\ card.interval >= prior.interval
        /\ prior.repetitions >= 1 => card.interval > prior.interval

\* A third or later correct answer of a run, computed with the ease factor at its floor.
C31_Witness ==
    /\ answers > 0
    /\ lastQuality >= 3
    /\ prior.repetitions >= 2
    /\ prior.ease_factor = MinEase
    /\ card.interval > prior.interval

---------------------------------------------------------------------------
(* Further claims about SubmitAnswer with calls one after the other, checked
   under SpecInputs *)

\* The fields of a progress that the DTO of a call carries
SameAsDto(progress, dto) ==
    /\ progress.next_review = dto.next_review
    /\ progress.repetitions = dto.repetitions
    /\ progress.ease_factor = dto.ease_factor
    /\ progress.interval = dto.interval_days

\* C32: the result of a successful SubmitAnswer (next_review, repetitions,
\* ease_factor, interval) equals the progress persisted for the pair when the call's
\* save completes, and its repetitions and interval are the transition of the
\* progress that was persisted just before.
C32_ResultIsPersistedState ==
    [][\A p \in Procs :
        LET data == req[p].data
            dto == StudySessionResponseDto(data, req[p].progress)
            before == ProgressRowsFor(progressTable, data.user_id, data.word_id)
            after == ProgressRowsFor(progressTable', data.user_id, data.word_id)
        IN /\ PersistStep(p) =>
                /\ after # {}
                /\ \A i \in after : SameAsDto(progressTable'[i], dto)
                /\ IF before = {}
                   THEN LET next == Sm2(FreshState(data.user_id, data.word_id), data.quality)
                        IN /\ dto.repetitions = next.repetitions
                           /\ dto.interval_days = next.interval
                   ELSE \A i \in before :
                        LET next == Sm2(progressTable[i], data.quality)
                        IN /\ dto.repetitions = next.repetitions
                           /\ dto.interval_days = next.interval
           /\ SucceedStep(p) =>
                /\ req'[p].progress = req[p].progress
                /\ \A i \in before : SameAsDto(progressTable[i], dto)
      ]_vars

\* A correct answer to an item answered correctly once before has returned with
\* repetitions 2 and interval 6, and the row holds the same.
C32_Witness ==
    \E p \in Procs :
        /\ req[p].outcome.kind = "ok"
        /\ req[p].seen # <<>>
        /\ req[p].seen[1].repetitions = 1
        /\ req[p].progress.repetitions = 2
        /\ req[p].progress.interval = 6
        /\ progressTable[req[p].progress.id].interval = 6

\* C33: SubmitAnswer for a pair (learner, item) leaves the progress of every
\* other pair, every word and every session written before unchanged: a step
\* changes or adds a progress row only for the pair of the call that is saving.
C33_OtherPairsUnchanged ==
    [][/\ wordTable' = wordTable
       /\ Len(sessionTable') >= Len(sessionTable)
       /\ SubSeq(sessionTable', 1, Len(sessionTable)) = sessionTable
       /\ Len(progressTable') >= Len(progressTable)
       /\ \A i \in 1..Len(progressTable') :
            (i > Len(progressTable) \/ progressTable'[i] # progressTable[i]) =>
                \E p \in Procs :
                    /\ PersistStep(p)
                    /\ progressTable'[i].user_id = req[p].data.user_id
                    /\ progressTable'[i].word_id = req[p].data.word_id
                    /\ i <= Len(progressTable) =>
                        /\ progressTable[i].user_id = req[p].data.user_id
                        /\ progressTable[i].word_id = req[p].data.word_id
      ]_vars

\* A call has saved its progress and its session while the progress and the
\* session of another learner's earlier answer to the same item are stored.
C33_Witness ==
    \E p \in Procs :
        /\ req[p].outcome.kind = "ok"
        /\ Len(progressTable) = 2
        /\ Len(sessionTable) = 2
        /\ progressTable[1].user_id # req[p].data.user_id
        /\ progressTable[1].word_id = req[p].data.word_id
        /\ progressTable[2].user_id = req[p].data.user_id
        /\ sessionTable[1].user_id = progressTable[1].user_id

---------------------------------------------------------------------------
(* Further claims about GenerateStudyBlock, checked under SpecBlock *)

\* A step that leaves a GenerateStudyBlock result with the caller
GenerateStep == block'.kind # "none"

\* C34: GenerateStudyBlock only reads.  Whether it returns a block or raises, the
\* progress rows, the session rows and the words are as before, and every item it
\* presents is still due or still unstudied for the learner afterwards.
C34_BlockReadOnly ==
    [][GenerateStep =>
        /\ progressTable' = progressTable
        /\ sessionTable' = sessionTable
        /\ wordTable' = wordTable
        /\ \A k \in 1..Len(block'.words) :
            \/ \E i \in DueRows(progressTable', block'.user_id, clock') :
                    progressTable'[i].word_id = block'.words[k]
            \/ block'.words[k] \in UnstudiedWords(wordTable', progressTable', block'.user_id)
      ]_vars

\* A block with a due item and a new item has been handed out, with the
\* learner's answer on record.
C34_Witness ==
    /\ BlockOk
    /\ Len(block.words) = 2
    /\ block.words[1] \in DueItems
    /\ block.words[2] \in NewItems
    /\ Len(sessionTable) >= 1

\* The items of the block just generated
BlockItems == {block.words[k] : k \in 1..Len(block.words)}

\* C35: once an answer for (learner, item) has been saved, the item is in no
\* block generated for the learner while now < next_review, and once
\* now >= next_review it is in every block whose limit is at least the number of
\* the learner's due items.
C35_AnsweredItemWaits ==
    BlockOk =>
        \A i \in RowsOfLearner :
            /\ clock < progressTable[i].next_review =>
                    progressTable[i].word_id \notin BlockItems
            /\ (clock >= progressTable[i].next_review
                    /\ block.limit >= Cardinality(DueItems)) =>
                    progressTable[i].word_id \in BlockItems

---------------------------------------------------------------------------
(* Claims about interleaved SubmitAnswer calls *)

\* C36: in every reachable state, interleaved calls included, every session row
\* has a persisted progress row for the same (learner, item) pair whose
\* last_review is at or after the session's timestamp.
C36_ProgressCoversSessions ==
    \A k \in 1..Len(sessionTable) :
        \E i \in ProgressRowsFor(progressTable, sessionTable[k].user_id,
                                 sessionTable[k].word_id) :
            progressTable[i].last_review >= sessionTable[k].timestamp

---------------------------------------------------------------------------
(* Claims about GetWordStats, checked under SpecStats *)

---------------------------------------------------------------------------
(* Claims about the mediator get_mediator builds, checked under SpecWired *)

\* The request types the controller's routes send, by send method
ControllerTypes ==
    [send_command |-> {"SubmitAnswerCommand", "GenerateStudyBlockCommand"},
     send_query |-> {"GetUserProgressQuery", "GetWordStatsQuery", "GetGlobalStatsQuery"}]

\* C38: in the mediator get_mediator builds, every request type the controller
\* sends has a handler of the matching class in the registry of its send method,
\* so no route gets the mediator's "no handler registered" error or a handler's
\* rejection of a request of another class.
C38_ControllerTypesWired ==
    /\ Built =>
        \A via \in DOMAIN ControllerTypes : \A t \in ControllerTypes[via] :
            LET handler == DictGet(Registry(via), t)
            IN /\ Truthy(handler)
               /\ handler \in DOMAIN HandlerAccepts
               /\ HandlerAccepts[handler] = t
    /\ Sent =>
        /\ reply.request.type \in ControllerTypes[reply.via]
        /\ reply.kind \in {"returned", "raised"}
        /\ Len(invoked) = 1
        /\ HandlerAccepts[invoked[1].handler] = reply.request.type

\* The statistics route has been answered by the global statistics handler.
C38_Witness ==
    /\ Sent
    /\ reply.via = "send_query"
    /\ reply.request.type = "GetGlobalStatsQuery"
    /\ reply.kind = "returned"
    /\ invoked[1].handler = "get_global_stats_handler"

---------------------------------------------------------------------------
(* Further claims about CQRSMediator, checked under SpecMediator *)

\* The entries a registry holds for a type
EntriesOf(dict, type) == {e \in dict : e[1] = type}

\* The registry of a send method after the step
RegistryAfter(via) == IF via = "send_command" THEN command_handlers' ELSE query_handlers'

\* A step in which a handler is registered
RegisterStep == Len(registrations') = Len(registrations) + 1

\* C39: the command registry and the query registry are independent and keyed by
\* the exact class.  Registering a handler for type T changes only T's entry in
\* the registry of that register method, and a request of type T goes only to
\* the handler registered under T in the registry of the send method used, never
\* to one registered under T's base class or in the other registry.
C39_ExactTypeRouting ==
    [][/\ RegisterStep =>
            LET r == registrations'[Len(registrations')]
                other == IF r.registry = "send_command" THEN "send_query" ELSE "send_command"
            IN /\ RegistryAfter(other) = Registry(other)
               /\ EntriesOf(RegistryAfter(r.registry), r.type) = {<<r.type, r.handler>>}
               /\ \A t \in RequestTypes \cup {"Query", "object"} :
                    t # r.type =>
                        EntriesOf(RegistryAfter(r.registry), t) = EntriesOf(Registry(r.registry), t)
       /\ SendStep =>
            /\ UNCHANGED <<command_handlers, query_handlers>>
            /\ \A i \in 1..Len(invoked') :
                    <<reply'.request.type, invoked'[i].handler>> \in Registry(reply'.via)
            /\ EntriesOf(Registry(reply'.via), reply'.request.type) = {} => invoked' = <<>>
      ]_vars

\* A SubmitAnswerCommand was sent while the command registry held a handler for
\* the base class Command only: no handler was called.
C39_Witness ==
    /\ Sent
    /\ reply.via = "send_command"
    /\ reply.request.type = "SubmitAnswerCommand"
    /\ EntriesOf(command_handlers, "Command") # {}
    /\ EntriesOf(command_handlers, "SubmitAnswerCommand") = {}
    /\ invoked = <<>>
    /\ reply.kind = "ValueError"

====
